---- MODULE Spec2Model ----
(***************************************************************************)
(* Lavalink.py: the WebSocket channel (lavalink/websocket.py) and the      *)
(* players (lavalink/models.py, lavalink/ext/players/AdvancedPlayer.py).   *)
(*                                                                         *)
(* The channel runs on one asyncio event loop.  A coroutine runs without   *)
(* interruption until it awaits something that suspends; `cur` names the   *)
(* task that holds the loop between two such points (NoTask when the loop  *)
(* is free to schedule any ready task or callback).                        *)
(***************************************************************************)
EXTENDS Integers, Sequences, FiniteSets, TLC

\* ------------------------------------------------------------------ bounds
MaxConn    == 2     \* successful handshakes (sockets, hence read-loop tasks)
MaxMsgs    == 2     \* payloads handed to _send by the application
MaxBuf     == 3     \* cap on the length of _message_queue
MaxAttempt == 3     \* the remote accepts the MaxAttempt-th attempt of a loop at the latest

MaxQueue   == 1     \* cap on the length of AdvancedPlayer.queue
MaxTicks   == 1     \* clock advances
MaxBatch   == 2     \* entries of one set_gains call
NowBase    == 10    \* time() * 1000 when the player is created
MaxTasks   == 2     \* application tasks that each issue one player command

\* ------------------------------------------------------- program constants
NumBands    == 15
DefaultVolume == 100
GainMin     == -25  \* -0.25, gains are in hundredths
GainMax     == 100  \*  1.0
BackoffStep == 10
BackoffCap  == 60
AuthStatus  == 401

NoTask == MaxConn + 1   \* no task holds the event loop
None   == 0
CfgMsg == 0         \* the configureResuming payload

Tasks   == 0 .. MaxConn          \* 0: the task __init__ starts; k: k-th read loop
Sockets == 1 .. MaxConn
Msgs    == 1 .. MaxMsgs

VARIABLES
    ws,                  \* self._ws: None or a socket
    closed,              \* the sockets whose .closed is true
    message_queue,       \* self._message_queue
    resuming_configured, \* self._resuming_configured
    hasResume,           \* resume_key set and resume_timeout > 0 (constructor)
    pc,                  \* where each task stands
    attempt,             \* connect's local `attempt`, per task
    backoff,             \* connect's local `backoff` while it sleeps, per task
    headerKey,           \* connect's headers hold a Resume-Key, per task
    iter,                \* the flush loop's list iterator index, per task
    lsock,               \* the socket a read loop iterates
    cur,                 \* the task holding the event loop
    wire,                \* payloads handed to send_json, in order
    connCount,           \* handshakes that succeeded so far
    spawnCount,          \* read loops started so far
    nextMsg,             \* next application payload
    epochOf,             \* connCount when a payload was handed to _send
    bufOf,               \* whether _send buffered the payload
    authSeen,            \* a handshake was rejected with 401
    consecFails          \* failed handshakes since creation / last success

wsVars == <<ws, closed, message_queue, resuming_configured, hasResume, pc,
            attempt, backoff, headerKey, iter, lsock, cur, wire, connCount,
            spawnCount, nextMsg, epochOf, bufOf, authSeen, consecFails>>

\* The players' state.
VARIABLES
    variant,        \* "basic": BasicPlayer, "advanced": AdvancedPlayer
    node,           \* self.node
    channel_id,     \* self.channel_id
    voice_state,    \* the keys of self._voice_state
    volume,         \* self.volume
    paused,         \* self.paused
    equalizer,      \* self.equalizer, gains in hundredths
    current,        \* self.current: None or a track
    last_update,    \* self._last_update
    last_position,  \* self._last_position
    queue,          \* AdvancedPlayer.queue
    shuffle,        \* AdvancedPlayer.shuffle
    repeat,         \* AdvancedPlayer.repeat
    now,            \* time() * 1000
    out,            \* what the last call sent and dispatched, in order
    res,            \* how the last call ended: "ok" or the exception raised
    call,           \* the last call and its arguments
    gain_list       \* the gain_list of the last set_gains

plVars == <<variant, node, channel_id, voice_state, volume, paused, equalizer,
            current, last_update, last_position, queue, shuffle, repeat, now,
            out, res, call>>

\* Commands of one player issued by concurrent tasks.
VARIABLES
    ptask,          \* per task: the command it runs, its argument, where it stands
    pwire           \* the commands handed to the nodes' sockets, in order

ccVars == <<ptask, pwire>>

\* The inbound message the read loop is handling (_handle_message).
VARIABLE inbound

inVars == <<inbound>>

vars == <<wsVars, plVars, gain_list, ccVars, inVars>>

Min(a, b) == IF a < b THEN a ELSE b
Max(a, b) == IF a > b THEN a ELSE b

\* ------------------------------------------------------------- WebSocket
connected == ws # None /\ ws \notin closed

\* _send: transmit when connected, else append to the buffer.
SendWire(m)  == IF connected THEN Append(wire, m) ELSE wire
SendQueue(m) == IF connected THEN message_queue ELSE Append(message_queue, m)

Backoff(n) == Min(BackoffStep * n, BackoffCap)

Free(t) == cur = NoTask \/ cur = t

WSInit ==
    /\ ws = None
    /\ closed = {}
    /\ message_queue = <<>>
    /\ resuming_configured = FALSE
    /\ hasResume \in BOOLEAN
    /\ pc = [t \in Tasks |-> IF t = 0 THEN "enter" ELSE "none"]
    /\ attempt = [t \in Tasks |-> 0]
    /\ backoff = [t \in Tasks |-> 0]
    /\ headerKey = [t \in Tasks |-> FALSE]
    /\ iter = [t \in Tasks |-> 0]
    /\ lsock = [t \in Tasks |-> None]
    /\ cur = NoTask
    /\ wire = <<>>
    /\ connCount = 0
    /\ spawnCount = 0
    /\ nextMsg = 1
    /\ epochOf = [m \in Msgs |-> 0]
    /\ bufOf = [m \in Msgs |-> FALSE]
    /\ authSeen = FALSE
    /\ consecFails = 0

\* Another task calls _send(**data).
Send ==
    /\ cur = NoTask
    /\ nextMsg <= MaxMsgs
    /\ ~connected => Len(message_queue) < MaxBuf
    /\ wire' = SendWire(nextMsg)
    /\ message_queue' = SendQueue(nextMsg)
    /\ epochOf' = [epochOf EXCEPT ![nextMsg] = connCount]
    /\ bufOf' = [bufOf EXCEPT ![nextMsg] = ~connected]
    /\ nextMsg' = nextMsg + 1
    /\ UNCHANGED <<ws, closed, resuming_configured, hasResume, pc, attempt,
                   headerKey, iter, lsock, cur, connCount, spawnCount,
                   authSeen, consecFails, backoff,
                   plVars, gain_list, ccVars, inVars>>

\* connect(): the headers and attempt = 0.
ConnectEnter(t) ==
    /\ Free(t)
    /\ pc[t] = "enter"
    /\ headerKey' = [headerKey EXCEPT ![t] = resuming_configured /\ hasResume]
    /\ attempt' = [attempt EXCEPT ![t] = 0]
    /\ pc' = [pc EXCEPT ![t] = "loop"]
    /\ cur' = t
    /\ UNCHANGED <<ws, closed, message_queue, resuming_configured, hasResume,
                   iter, lsock, wire, connCount, spawnCount, nextMsg,
                   epochOf, bufOf, authSeen, consecFails, backoff,
                   plVars, gain_list, ccVars, inVars>>

\* while not self.connected: attempt += 1; await ws_connect(...)
ConnectLoop(t) ==
    /\ Free(t)
    /\ pc[t] = "loop"
    /\ IF connected
       THEN /\ pc' = [pc EXCEPT ![t] = "done"]
            /\ UNCHANGED attempt
       ELSE /\ pc' = [pc EXCEPT ![t] = "connecting"]
            /\ attempt' = [attempt EXCEPT ![t] = attempt[t] + 1]
    /\ cur' = NoTask
    /\ UNCHANGED <<ws, closed, message_queue, resuming_configured, hasResume,
                   headerKey, iter, lsock, wire, connCount, spawnCount,
                   nextMsg, epochOf, bufOf, authSeen, consecFails, backoff,
                   plVars, gain_list, ccVars, inVars>>

\* ws_connect returns a socket: self._ws = ...; await _node_connect(...)
HandshakeOk(t) ==
    /\ cur = NoTask
    /\ pc[t] = "connecting"
    /\ connCount < MaxConn
    /\ connCount' = connCount + 1
    /\ ws' = connCount + 1
    /\ consecFails' = 0
    /\ pc' = [pc EXCEPT ![t] = "notify"]
    /\ UNCHANGED <<closed, message_queue, resuming_configured, hasResume,
                   attempt, backoff, headerKey, iter, lsock, cur, wire,
                   spawnCount, nextMsg, epochOf, bufOf, authSeen,
                   plVars, gain_list, ccVars, inVars>>

\* ws_connect raises ClientConnectorError (status 0) or WSServerHandshakeError.
HandshakeFail(t, status) ==
    /\ cur = NoTask
    /\ pc[t] = "connecting"
    /\ attempt[t] < MaxAttempt
    /\ authSeen' = (authSeen \/ status = AuthStatus)
    /\ IF attempt[t] = 1 /\ status = AuthStatus
       THEN /\ pc' = [pc EXCEPT ![t] = "done"]
            /\ UNCHANGED <<consecFails, backoff>>
       ELSE /\ pc' = [pc EXCEPT ![t] = "sleep"]
            /\ backoff' = [backoff EXCEPT ![t] = Backoff(attempt[t])]
            /\ consecFails' = consecFails + 1
    /\ UNCHANGED <<ws, closed, message_queue, resuming_configured, hasResume,
                   attempt, headerKey, iter, lsock, cur, wire, connCount,
                   spawnCount, nextMsg, epochOf, bufOf,
                   plVars, gain_list, ccVars, inVars>>

\* asyncio.sleep(backoff) returns.
SleepDone(t) ==
    /\ cur = NoTask
    /\ pc[t] = "sleep"
    /\ pc' = [pc EXCEPT ![t] = "loop"]
    /\ backoff' = [backoff EXCEPT ![t] = 0]
    /\ cur' = t
    /\ UNCHANGED <<ws, closed, message_queue, resuming_configured, hasResume,
                   attempt, headerKey, iter, lsock, wire, connCount,
                   spawnCount, nextMsg, epochOf, bufOf, authSeen, consecFails,
                   plVars, gain_list, ccVars, inVars>>

\* _node_connect returns: asyncio.ensure_future(self._listen())
NodeConnected(t) ==
    /\ cur = NoTask
    /\ pc[t] = "notify"
    /\ spawnCount' = spawnCount + 1
    /\ pc' = [pc EXCEPT ![t] = "resume", ![spawnCount + 1] = "spawned"]
    /\ cur' = t
    /\ UNCHANGED <<ws, closed, message_queue, resuming_configured, hasResume,
                   attempt, backoff, headerKey, iter, lsock, wire, connCount,
                   nextMsg, epochOf, bufOf, authSeen, consecFails,
                   plVars, gain_list, ccVars, inVars>>

\* if not self._resuming_configured and self._resume_key and timeout > 0:
\*     await self._send(op='configureResuming', ...)
ConfigureResuming(t) ==
    /\ Free(t)
    /\ pc[t] = "resume"
    /\ IF ~resuming_configured /\ hasResume
       THEN /\ wire' = SendWire(CfgMsg)
            /\ message_queue' = SendQueue(CfgMsg)
            /\ pc' = [pc EXCEPT ![t] = "resume_sent"]
            /\ cur' = IF connected THEN NoTask ELSE t
       ELSE /\ pc' = [pc EXCEPT ![t] = "flush_check"]
            /\ cur' = t
            /\ UNCHANGED <<wire, message_queue>>
    /\ UNCHANGED <<ws, closed, resuming_configured, hasResume, attempt,
                   headerKey, iter, lsock, connCount, spawnCount,
                   nextMsg, epochOf, bufOf, authSeen, consecFails, backoff,
                   plVars, gain_list, ccVars, inVars>>

\* self._resuming_configured = True
ResumingConfigured(t) ==
    /\ Free(t)
    /\ pc[t] = "resume_sent"
    /\ resuming_configured' = TRUE
    /\ pc' = [pc EXCEPT ![t] = "flush_check"]
    /\ cur' = t
    /\ UNCHANGED <<ws, closed, message_queue, hasResume, attempt, headerKey, iter, lsock, wire, connCount, spawnCount,
                   nextMsg, epochOf, bufOf, authSeen, consecFails, backoff,
                   plVars, gain_list, ccVars, inVars>>

\* if self._message_queue: for message in self._message_queue: ...
FlushCheck(t) ==
    /\ Free(t)
    /\ pc[t] = "flush_check"
    /\ IF message_queue # <<>>
       THEN /\ pc' = [pc EXCEPT ![t] = "flush_iter"]
            /\ iter' = [iter EXCEPT ![t] = 0]
       ELSE /\ pc' = [pc EXCEPT ![t] = "loop"]
            /\ UNCHANGED iter
    /\ cur' = t
    /\ UNCHANGED <<ws, closed, message_queue, resuming_configured, hasResume,
                   attempt, headerKey, lsock, wire, connCount,
                   spawnCount, nextMsg, epochOf, bufOf, authSeen, consecFails, backoff,
                   plVars, gain_list, ccVars, inVars>>

\* One turn of the for loop: the list iterator yields the next payload and
\* _send transmits it (send_json suspends) or appends it to the very list the
\* loop iterates (no suspension); an exhausted iterator ends the loop and
\* self._message_queue.clear() runs.  While disconnected every turn adds the
\* element the next turn reads: the code's loop never ends nor yields; here
\* it is cut once the list holds MaxBuf payloads, with cur still at t.
FlushIter(t) ==
    /\ Free(t)
    /\ pc[t] = "flush_iter"
    /\ IF iter[t] < Len(message_queue)
       THEN /\ ~connected => Len(message_queue) < MaxBuf
            /\ iter' = [iter EXCEPT ![t] = iter[t] + 1]
            /\ wire' = SendWire(message_queue[iter[t] + 1])
            /\ message_queue' = SendQueue(message_queue[iter[t] + 1])
            /\ pc' = [pc EXCEPT ![t] = IF connected THEN "flush_sent" ELSE "flush_iter"]
            /\ cur' = IF connected THEN NoTask ELSE t
       ELSE /\ message_queue' = <<>>
            /\ pc' = [pc EXCEPT ![t] = "loop"]
            /\ cur' = t
            /\ UNCHANGED <<iter, wire>>
    /\ UNCHANGED <<ws, closed, resuming_configured, hasResume, attempt,
                   headerKey, lsock, connCount, spawnCount, nextMsg,
                   epochOf, bufOf, authSeen, consecFails, backoff,
                   plVars, gain_list, ccVars, inVars>>

\* send_json returns inside the flush loop.
FlushSent(t) ==
    /\ cur = NoTask
    /\ pc[t] = "flush_sent"
    /\ pc' = [pc EXCEPT ![t] = "flush_iter"]
    /\ cur' = t
    /\ UNCHANGED <<ws, closed, message_queue, resuming_configured, hasResume,
                   attempt, backoff, headerKey, iter, lsock, wire, connCount,
                   spawnCount, nextMsg, epochOf, bufOf, authSeen, consecFails,
                   plVars, gain_list, ccVars, inVars>>

\* _listen starts: async for msg in self._ws (a TypeError when it is None).
ListenStart(t) ==
    /\ cur = NoTask
    /\ pc[t] = "spawned"
    /\ lsock' = [lsock EXCEPT ![t] = ws]
    /\ pc' = [pc EXCEPT ![t] = IF ws = None THEN "crashed" ELSE "listen"]
    /\ UNCHANGED <<ws, closed, message_queue, resuming_configured, hasResume,
                   attempt, backoff, headerKey, iter, cur, wire, connCount,
                   spawnCount, nextMsg, epochOf, bufOf, authSeen, consecFails,
                   plVars, gain_list, ccVars, inVars>>

\* The read loop ends on a closed socket: _websocket_closed sets
\* self._ws = None and awaits _node_disconnect.
WebsocketClosed(t) ==
    /\ cur = NoTask
    /\ pc[t] = "listen"
    /\ lsock[t] \in closed
    /\ ws' = None
    /\ pc' = [pc EXCEPT ![t] = "disc_notify"]
    /\ UNCHANGED <<closed, message_queue, resuming_configured, hasResume,
                   attempt, backoff, headerKey, iter, lsock, cur, wire,
                   connCount, spawnCount, nextMsg, epochOf, bufOf, authSeen,
                   consecFails,
                   plVars, gain_list, ccVars, inVars>>

\* _node_disconnect returns: await self.connect()
NodeDisconnected(t) ==
    /\ cur = NoTask
    /\ pc[t] = "disc_notify"
    /\ pc' = [pc EXCEPT ![t] = "enter"]
    /\ cur' = t
    /\ UNCHANGED <<ws, closed, message_queue, resuming_configured, hasResume,
                   attempt, backoff, headerKey, iter, lsock, wire, connCount,
                   spawnCount, nextMsg, epochOf, bufOf, authSeen, consecFails,
                   plVars, gain_list, ccVars, inVars>>

\* The remote closes a socket, or its stream ends.
SocketClose(s) ==
    /\ cur = NoTask
    /\ s <= connCount
    /\ s \notin closed
    /\ closed' = closed \cup {s}
    /\ UNCHANGED <<ws, message_queue, resuming_configured, hasResume, pc,
                   attempt, backoff, headerKey, iter, lsock, cur, wire,
                   connCount, spawnCount, nextMsg, epochOf, bufOf, authSeen,
                   consecFails,
                   plVars, gain_list, ccVars, inVars>>

\* ---------------------------------------------------------------- players
Absent == -99       \* a keyword left out of a payload
Nodes  == {1, 2}
Tracks == {1, 2}
\* AudioTrack.duration: track 1 ends within the clock's reach; the others
\* outlast it, as does a stream.
Duration(tr) == IF tr = 1 THEN 2 ELSE 2 * NowBase

StartTimes == {-1, 0, 1, 3}
EndTimes   == {0, 3}
Positions  == {0, 1, 3}
Volumes    == {50, DefaultVolume, 1500}

Cmd(op, n, args) == [op |-> op, node |-> n, args |-> args]
Call(op, args) == [op |-> op, args |-> args]
Flag(b) == IF b THEN 1 ELSE 0

is_connected == channel_id # None
is_playing == is_connected /\ current # None

\* position without the cap at the track's duration.
positionUncapped ==
    IF ~is_playing THEN 0
    ELSE IF paused THEN last_position
    ELSE last_position + (now - last_update)

\* BasicPlayer.position
position ==
    IF ~is_playing THEN 0
    ELSE IF paused THEN Min(last_position, Duration(current))
    ELSE Min(last_position + (now - last_update), Duration(current))

PlayerInit ==
    /\ variant \in {"basic", "advanced"}
    /\ node = 1
    /\ channel_id = None
    /\ voice_state = {}
    /\ volume = DefaultVolume
    /\ paused = FALSE
    /\ equalizer = [b \in 1 .. NumBands |-> 0]
    /\ current = None
    /\ last_update = 0
    /\ last_position = 0
    /\ queue = <<>>
    /\ shuffle = FALSE
    /\ repeat = FALSE
    /\ now = NowBase
    /\ out = <<>>
    /\ res = "ok"
    /\ call = Call("init", <<>>)
    /\ gain_list = <<>>

\* _dispatch_voice_update sending as soon as the server event is known.
VoiceUpdateOnEvent(vs, n) ==
    IF "event" \in vs THEN <<Cmd("voiceUpdate", n, <<vs>>)>> ELSE <<>>

\* _dispatch_voice_update: the payload holds the entries of _voice_state
VoiceUpdate(vs, n) ==
    IF vs = {"sessionId", "event"} THEN <<Cmd("voiceUpdate", n, <<vs>>)>> ELSE <<>>

\* _voice_server_update(data)
VoiceServerUpdate ==
    /\ voice_state' = voice_state \cup {"event"}
    /\ out' = VoiceUpdate(voice_state', node)
    /\ res' = "ok"
    /\ call' = Call("voice_server_update", <<>>)
    /\ UNCHANGED <<variant, node, channel_id, volume, paused, equalizer,
                   current, last_update, last_position, queue, shuffle,
                   repeat, now,
                   wsVars, gain_list, ccVars, inVars>>

\* _voice_state_update(data): data['channel_id'] is None or a channel
VoiceStateUpdate(ch) ==
    /\ channel_id' = ch
    /\ voice_state' = IF ch = None THEN {} ELSE voice_state \cup {"sessionId"}
    /\ out' = IF ch = None THEN <<>> ELSE VoiceUpdate(voice_state', node)
    /\ res' = "ok"
    /\ call' = Call("voice_state_update", <<ch>>)
    /\ UNCHANGED <<variant, node, volume, paused, equalizer, current,
                   last_update, last_position, queue, shuffle, repeat, now,
                   wsVars, gain_list, ccVars, inVars>>

\* _update_state(state)
UpdateStateBody(p) ==
    /\ last_update' = now
    /\ last_position' = p
    /\ out' = <<Cmd("PlayerUpdateEvent", node, <<p>>)>>
    /\ res' = "ok"
    /\ call' = Call("update_state", <<p>>)
    /\ UNCHANGED <<variant, node, channel_id, voice_state, volume, paused,
                   equalizer, current, queue, shuffle, repeat, now,
                   wsVars, gain_list, ccVars>>

UpdateState(p) == UpdateStateBody(p) /\ UNCHANGED inVars

\* BasicPlayer.play(track, start_time, end_time, no_replace)
BasicPlay(tr, st, et, nr) ==
    /\ variant = "basic"
    /\ last_update' = 0
    /\ last_position' = 0
    /\ paused' = FALSE
    /\ current' = tr
    /\ out' = <<Cmd("play", node, <<tr, st, et, Flag(nr)>>),
                Cmd("TrackStartEvent", node, <<tr>>)>>
    /\ res' = "ok"
    /\ call' = Call("play", <<tr, st, et, now>>)
    /\ UNCHANGED <<variant, node, channel_id, voice_state, volume, equalizer,
                   queue, shuffle, repeat, now,
                   wsVars, gain_list, ccVars, inVars>>

\* The test guarding each ValueError of AdvancedPlayer.play:
\* 0 > start_time > track.duration
RangeError(x, tr) == 0 > x /\ x > Duration(tr)

\* An entry of options: present when the argument is truthy.
Opt(x) == IF x = 0 THEN Absent ELSE x

\* play() on an empty queue that dispatches QueueEndEvent without stopping.
EmptyQueueOutNoStop(n) == <<Cmd("QueueEndEvent", n, <<>>)>>

\* play() on an empty queue: await self.stop(), then QueueEndEvent
EmptyQueueOut(n) == <<Cmd("stop", n, <<>>), Cmd("QueueEndEvent", n, <<>>)>>

\* AdvancedPlayer.play(track, start_time, end_time, no_replace); track is
\* None for play().  deque.pop takes no argument: queue.pop(pop_at) raises
\* TypeError whatever pop_at is.
AdvancedPlayBody(tr, st, et, nr) ==
    /\ queue' = IF repeat /\ current # None THEN Append(queue, current) ELSE queue
    /\ last_update' = 0
    /\ last_position' = 0
    /\ paused' = FALSE
    /\ IF tr = None /\ queue' = <<>>
       THEN /\ current' = None
            /\ out' = EmptyQueueOut(node)
            /\ res' = "ok"
       ELSE IF tr = None
       THEN /\ \E pop_at \in (IF shuffle THEN 0 .. (Len(queue') - 1) ELSE {0}) :
                   res' = "TypeError"
            /\ out' = <<>>
            /\ UNCHANGED current
       ELSE IF (st # 0 /\ RangeError(st, tr)) \/ (et # 0 /\ RangeError(et, tr))
       THEN /\ res' = "ValueError"
            /\ out' = <<>>
            /\ UNCHANGED current
       ELSE /\ current' = tr
            /\ out' = <<Cmd("play", node, <<tr, Opt(st), Opt(et), Opt(Flag(nr))>>),
                        Cmd("TrackStartEvent", node, <<tr>>)>>
            /\ res' = "ok"

AdvancedPlay(tr, st, et, nr) ==
    /\ variant = "advanced"
    /\ repeat /\ current # None => Len(queue) < MaxQueue
    /\ AdvancedPlayBody(tr, st, et, nr)
    /\ call' = Call("play", <<tr, st, et, now>>)
    /\ UNCHANGED <<variant, node, channel_id, voice_state, volume, equalizer,
                   shuffle, repeat, now,
                   wsVars, gain_list, ccVars, inVars>>

\* AdvancedPlayer.add(requester, track, index): index None appends
Add(tr, index) ==
    /\ variant = "advanced"
    /\ Len(queue) < MaxQueue
    /\ queue' = IF index = None THEN Append(queue, tr) ELSE <<tr>> \o queue
    /\ out' = <<>>
    /\ res' = "ok"
    /\ call' = Call("add", <<tr>>)
    /\ UNCHANGED <<variant, node, channel_id, voice_state, volume, paused,
                   equalizer, current, last_update, last_position, shuffle,
                   repeat, now,
                   wsVars, gain_list, ccVars, inVars>>

\* The application sets player.repeat.
SetRepeat(r) ==
    /\ variant = "advanced"
    /\ r # repeat
    /\ repeat' = r
    /\ UNCHANGED <<variant, node, channel_id, voice_state, volume, paused,
                   equalizer, current, last_update, last_position, queue,
                   shuffle, now, out, res, call, wsVars, gain_list, ccVars, inVars>>

\* The application sets player.shuffle.
SetShuffle(sh) ==
    /\ variant = "advanced"
    /\ sh # shuffle
    /\ shuffle' = sh
    /\ UNCHANGED <<variant, node, channel_id, voice_state, volume, paused,
                   equalizer, current, last_update, last_position, queue,
                   repeat, now, out, res, call, wsVars, gain_list, ccVars, inVars>>

\* BasicPlayer.stop
Stop ==
    /\ out' = <<Cmd("stop", node, <<>>)>>
    /\ current' = None
    /\ res' = "ok"
    /\ call' = Call("stop", <<>>)
    /\ UNCHANGED <<variant, node, channel_id, voice_state, volume, paused,
                   equalizer, last_update, last_position, queue, shuffle,
                   repeat, now,
                   wsVars, gain_list, ccVars, inVars>>

\* BasicPlayer.set_pause(pause)
SetPause(p) ==
    /\ out' = <<Cmd("pause", node, <<Flag(p)>>)>>
    /\ paused' = p
    /\ res' = "ok"
    /\ call' = Call("set_pause", <<Flag(p)>>)
    /\ UNCHANGED <<variant, node, channel_id, voice_state, volume, equalizer,
                   current, last_update, last_position, queue, shuffle,
                   repeat, now,
                   wsVars, gain_list, ccVars, inVars>>

\* BasicPlayer.set_volume(vol): the payload carries self.volume
SetVolume(vol) ==
    /\ out' = <<Cmd("volume", node, <<volume>>)>>
    /\ volume' = vol
    /\ res' = "ok"
    /\ call' = Call("set_volume", <<vol>>)
    /\ UNCHANGED <<variant, node, channel_id, voice_state, paused, equalizer,
                   current, last_update, last_position, queue, shuffle,
                   repeat, now,
                   wsVars, gain_list, ccVars, inVars>>

\* BasicPlayer.seek(position)
Seek(p) ==
    /\ out' = <<Cmd("seek", node, <<p>>)>>
    /\ res' = "ok"
    /\ call' = Call("seek", <<p>>)
    /\ UNCHANGED <<variant, node, channel_id, voice_state, volume, paused,
                   equalizer, current, last_update, last_position, queue,
                   shuffle, repeat, now,
                   wsVars, gain_list, ccVars, inVars>>

\* The events _handle_event can be given; the last three with any reason.
Events == {"TrackEndEvent:FINISHED", "TrackEndEvent:REPLACED",
           "TrackStuckEvent", "TrackExceptionEvent", "WebSocketClosedEvent"}
Terminal(ev) == ev \in {"TrackEndEvent:FINISHED", "TrackStuckEvent", "TrackExceptionEvent"}

\* BasicPlayer._handle_event / AdvancedPlayer._handle_event
HandleEventBody(ev) ==
    /\ call' = Call(ev, <<>>)
    /\ IF ~Terminal(ev)
       THEN /\ out' = <<>>
            /\ res' = "ok"
            /\ UNCHANGED <<current, last_update, last_position, paused, queue>>
       ELSE IF variant = "basic"
       THEN /\ current' = None
            /\ out' = <<>>
            /\ res' = "ok"
            /\ UNCHANGED <<last_update, last_position, paused, queue>>
       ELSE /\ repeat /\ current # None => Len(queue) < MaxQueue
            /\ AdvancedPlayBody(None, 0, 0, FALSE)
    /\ UNCHANGED <<variant, node, channel_id, voice_state, volume, equalizer,
                   shuffle, repeat, now,
                   wsVars, gain_list, ccVars>>

HandleEvent(ev) == HandleEventBody(ev) /\ UNCHANGED inVars

\* The equalizer payload of change_node: every band with its gain.
AllBands(eq) == [i \in 1 .. 2 * NumBands |->
                    IF i % 2 = 1 THEN (i - 1) \div 2 ELSE eq[i \div 2]]

\* change_node resending the volume whatever its value.
ChangeNodeResendVolume(n, avail) ==
    /\ node' = n
    /\ out' = (IF avail THEN <<Cmd("destroy", node, <<>>)>> ELSE <<>>)
              \o (IF voice_state # {} THEN VoiceUpdate(voice_state, n) ELSE <<>>)
              \o (IF current # None
                  THEN <<Cmd("play", n, <<current, position, Absent, Absent>>)>>
                       \o (IF paused THEN <<Cmd("pause", n, <<Flag(paused)>>)>> ELSE <<>>)
                  ELSE <<>>)
              \o <<Cmd("volume", n, <<volume>>)>>
              \o (IF \E b \in 1 .. NumBands : equalizer[b] # 0
                  THEN <<Cmd("equalizer", n, AllBands(equalizer))>> ELSE <<>>)
              \o <<Cmd("NodeChangedEvent", n, <<node, n>>)>>
    /\ last_update' = IF current # None THEN now ELSE last_update
    /\ res' = "ok"
    /\ call' = Call("change_node", <<n, Flag(avail)>>)
    /\ UNCHANGED <<variant, channel_id, voice_state, volume, paused, equalizer,
                   current, last_position, queue, shuffle, repeat, now,
                   wsVars, gain_list, ccVars, inVars>>

\* BasicPlayer.change_node(node); avail is the old node's .available
ChangeNode(n, avail) ==
    /\ node' = n
    /\ out' = (IF avail THEN <<Cmd("destroy", node, <<>>)>> ELSE <<>>)
              \o (IF voice_state # {} THEN VoiceUpdate(voice_state, n) ELSE <<>>)
              \o (IF current # None
                  THEN <<Cmd("play", n, <<current, position, Absent, Absent>>)>>
                       \o (IF paused THEN <<Cmd("pause", n, <<Flag(paused)>>)>> ELSE <<>>)
                  ELSE <<>>)
              \o (IF volume # DefaultVolume THEN <<Cmd("volume", n, <<volume>>)>> ELSE <<>>)
              \o (IF \E b \in 1 .. NumBands : equalizer[b] # 0
                  THEN <<Cmd("equalizer", n, AllBands(equalizer))>> ELSE <<>>)
              \o <<Cmd("NodeChangedEvent", n, <<node, n>>)>>
    /\ last_update' = IF current # None THEN now ELSE last_update
    /\ res' = "ok"
    /\ call' = Call("change_node", <<n, Flag(avail)>>)
    /\ UNCHANGED <<variant, channel_id, voice_state, volume, paused, equalizer,
                   current, last_position, queue, shuffle, repeat, now,
                   wsVars, gain_list, ccVars, inVars>>

\* time() advances.
Tick ==
    /\ now < NowBase + MaxTicks
    /\ now' = now + 1
    /\ UNCHANGED <<variant, node, channel_id, voice_state, volume, paused,
                   equalizer, current, last_update, last_position, queue,
                   shuffle, repeat, out, res, call,
                   wsVars, gain_list, ccVars, inVars>>

\* ------------------------------------------------------------- equalizer
\* An entry of gain_list: a tuple (band, gain), or something that is no tuple.
Pair(b, g) == [pair |-> TRUE, band |-> b, gain |-> g]
NonPair == [pair |-> FALSE, band |-> 0, gain |-> 0]
\* float('nan'): a gain that compares false with every number.
NaN == 9999
GainEntries == {Pair(0, -50), Pair(0, 50), Pair(0, 150), Pair(NumBands - 1, 150),
                Pair(1, NaN), Pair(-1, 50), Pair(NumBands, 50), NonPair}

RECURSIVE BatchesOf(_)
BatchesOf(n) ==
    IF n = 0 THEN {<<>>}
    ELSE BatchesOf(n - 1) \cup
         {Append(b, e) : b \in {x \in BatchesOf(n - 1) : Len(x) = n - 1}, e \in GainEntries}
Batches == BatchesOf(MaxBatch)

\* Python's a < b on floats: false when either side is nan.
Lt(a, b) == a # NaN /\ b # NaN /\ a < b

\* The builtins min(a, b) and max(a, b): the first argument is kept unless
\* the second compares smaller (greater).
PyMin(a, b) == IF Lt(b, a) THEN b ELSE a
PyMax(a, b) == IF Lt(a, b) THEN b ELSE a

\* max(min(float(gain), 1.0), -0.25)
Clamp(g) == PyMax(PyMin(g, GainMax), GainMin)

\* self.equalizer[band]: a Python list index, counted from the end when negative
PyIndex(b) == IF b < 0 THEN b + NumBands + 1 ELSE b + 1

\* Whether set_gains raises IndexError on this band: AdvancedPlayer tests
\* -1 < band < 15, BasicPlayer leaves it to the list assignment.
BandError(v, b) ==
    IF v = "advanced" THEN ~(-1 < b /\ b < NumBands)
    ELSE ~(-NumBands <= b /\ b < NumBands)

\* The for loop of set_gains: each entry is tested, clamped, appended to
\* update_package and stored, one after the other.
RECURSIVE ApplyGains(_, _, _, _)
ApplyGains(v, eq, pkg, rest) ==
    IF rest = <<>> THEN [eq |-> eq, pkg |-> pkg, err |-> "ok"]
    ELSE LET e == Head(rest) IN
         IF ~e.pair THEN [eq |-> eq, pkg |-> pkg, err |-> "TypeError"]
         ELSE IF BandError(v, e.band) THEN [eq |-> eq, pkg |-> pkg, err |-> "IndexError"]
         ELSE ApplyGains(v, [eq EXCEPT ![PyIndex(e.band)] = Clamp(e.gain)],
                         pkg \o <<e.band, Clamp(e.gain)>>, Tail(rest))

SetGainsBody(batch) ==
    LET r == ApplyGains(variant, equalizer, <<>>, batch) IN
    /\ equalizer' = r.eq
    /\ res' = r.err
    /\ out' = IF r.err = "ok" THEN <<Cmd("equalizer", node, r.pkg)>> ELSE <<>>
    /\ gain_list' = batch
    /\ UNCHANGED <<variant, node, channel_id, voice_state, volume, paused,
                   current, last_update, last_position, queue, shuffle,
                   repeat, now, wsVars, ccVars, inVars>>

\* BasicPlayer.set_gains / AdvancedPlayer.set_gains(*gain_list)
SetGains(batch) ==
    /\ SetGainsBody(batch)
    /\ call' = Call("set_gains", <<>>)

\* AdvancedPlayer.set_gain(band, gain)
SetGain(b, g) ==
    /\ variant = "advanced"
    /\ SetGainsBody(<<Pair(b, g)>>)
    /\ call' = Call("set_gain", <<>>)

\* AdvancedPlayer.reset_equalizer
ResetEqualizer ==
    /\ variant = "advanced"
    /\ SetGainsBody([i \in 1 .. NumBands |-> Pair(i - 1, 0)])
    /\ call' = Call("reset_equalizer", <<>>)

\* ------------------------------------------------- concurrent commands
\* Tasks of the application (or read loops delivering events) that call the
\* player's coroutines on one event loop.  A coroutine runs up to its next
\* `await self.node._send(...)`, hands the payload to the node's socket and is
\* suspended there; what follows the await runs when the task is resumed.
PTasks == 1 .. MaxTasks

Task(op, arg, at) == [op |-> op, arg |-> arg, pc |-> at]

TasksInit ==
    /\ ptask = [t \in PTasks |-> Task("none", 0, "idle")]
    /\ pwire = <<>>

\* self.node._send(op=..., ...): self.node is read when the call is made.
NodeSend(w, n, op, args) == Append(w, Cmd(op, n, args))

\* play(track): everything up to the await of _send
TaskPlay(t, tr) ==
    /\ ptask[t].pc = "idle"
    /\ queue' = IF variant = "advanced" /\ repeat /\ current # None
                THEN Append(queue, current) ELSE queue
    /\ last_update' = 0
    /\ last_position' = 0
    /\ paused' = FALSE
    /\ current' = tr
    /\ pwire' = NodeSend(pwire, node, "play", <<tr>>)
    /\ ptask' = [ptask EXCEPT ![t] = Task("play", tr, "sent")]
    /\ UNCHANGED <<variant, node, channel_id, voice_state, volume, equalizer,
                   shuffle, repeat, now, out, res, call, wsVars, gain_list, inVars>>

\* stop(): await self.node._send(op='stop', ...)
TaskStop(t) ==
    /\ ptask[t].pc = "idle"
    /\ pwire' = NodeSend(pwire, node, "stop", <<>>)
    /\ ptask' = [ptask EXCEPT ![t] = Task("stop", 0, "sent")]
    /\ UNCHANGED <<plVars, wsVars, gain_list, inVars>>

\* set_pause(pause): await self.node._send(op='pause', ..., pause=pause)
TaskSetPause(t, p) ==
    /\ ptask[t].pc = "idle"
    /\ pwire' = NodeSend(pwire, node, "pause", <<Flag(p)>>)
    /\ ptask' = [ptask EXCEPT ![t] = Task("set_pause", Flag(p), "sent")]
    /\ UNCHANGED <<plVars, wsVars, gain_list, inVars>>

\* set_volume(vol): await self.node._send(op='volume', ..., volume=self.volume)
TaskSetVolume(t, vol) ==
    /\ ptask[t].pc = "idle"
    /\ pwire' = NodeSend(pwire, node, "volume", <<volume>>)
    /\ ptask' = [ptask EXCEPT ![t] = Task("set_volume", vol, "sent")]
    /\ UNCHANGED <<plVars, wsVars, gain_list, inVars>>

\* seek(position): await self.node._send(op='seek', ..., position=position)
TaskSeek(t, p) ==
    /\ ptask[t].pc = "idle"
    /\ pwire' = NodeSend(pwire, node, "seek", <<p>>)
    /\ ptask' = [ptask EXCEPT ![t] = Task("seek", p, "sent")]
    /\ UNCHANGED <<plVars, wsVars, gain_list, inVars>>

\* The task is resumed after its send: the statements after the await.
CommandSent(t) ==
    /\ ptask[t].pc = "sent"
    /\ ptask[t].op \in {"play", "stop", "set_pause", "set_volume", "seek"}
    /\ current' = IF ptask[t].op = "stop" THEN None ELSE current
    /\ paused' = IF ptask[t].op = "set_pause" THEN ptask[t].arg = 1 ELSE paused
    /\ volume' = IF ptask[t].op = "set_volume" THEN ptask[t].arg ELSE volume
    /\ ptask' = [ptask EXCEPT ![t].pc = "done"]
    /\ UNCHANGED <<variant, node, channel_id, voice_state, equalizer,
                   last_update, last_position, queue, shuffle, repeat, now,
                   out, res, call, pwire, wsVars, gain_list, inVars>>

\* change_node from one of its awaits to the next `await self.node._send`
\* that is reached: r holds self.node, self._last_update and the commands
\* sent so far; k names the statement to continue at; n is the new node.
\* The result's pc names the statement to resume at after the send.
CnSend(r, op, args, next) ==
    [r EXCEPT !.wire = NodeSend(r.wire, r.node, op, args), !.pc = next]

RECURSIVE CnRun(_, _, _)
CnRun(k, n, r) ==
    IF k = "swap" THEN
        LET r1 == [r EXCEPT !.node = n] IN
        IF voice_state = {"sessionId", "event"}
        THEN CnSend(r1, "voiceUpdate", <<voice_state>>, "play")
        ELSE CnRun("play", n, r1)
    ELSE IF k = "play" THEN
        IF current # None
        THEN CnSend(r, "play", <<current, position>>, "anchor")
        ELSE CnRun("volume", n, r)
    ELSE IF k = "anchor" THEN
        LET r1 == [r EXCEPT !.last_update = now] IN
        IF paused
        THEN CnSend(r1, "pause", <<Flag(paused)>>, "volume")
        ELSE CnRun("volume", n, r1)
    ELSE IF k = "volume" THEN
        IF volume # DefaultVolume
        THEN CnSend(r, "volume", <<volume>>, "equalizer")
        ELSE CnRun("equalizer", n, r)
    ELSE IF k = "equalizer" THEN
        IF \E b \in 1 .. NumBands : equalizer[b] # 0
        THEN CnSend(r, "equalizer", AllBands(equalizer), "event")
        ELSE CnRun("event", n, r)
    ELSE [r EXCEPT !.pc = "done"]

CnApply(t, r) ==
    /\ node' = r.node
    /\ last_update' = r.last_update
    /\ pwire' = r.wire
    /\ ptask' = [ptask EXCEPT ![t].pc = r.pc]

CnState == [node |-> node, last_update |-> last_update, wire |-> pwire, pc |-> "idle"]

\* change_node(n) is called; avail is self.node.available
TaskChangeNode(t, n, avail) ==
    /\ ptask[t].pc = "idle"
    /\ LET r == IF avail THEN CnSend(CnState, "destroy", <<>>, "swap")
                ELSE CnRun("swap", n, CnState)
       IN /\ node' = r.node
          /\ last_update' = r.last_update
          /\ pwire' = r.wire
          /\ ptask' = [ptask EXCEPT ![t] = Task("change_node", n, r.pc)]
    /\ UNCHANGED <<variant, channel_id, voice_state, volume, paused, equalizer,
                   current, last_position, queue, shuffle, repeat, now,
                   out, res, call, wsVars, gain_list, inVars>>

\* change_node is resumed after one of its sends.
ChangeNodeResume(t) ==
    /\ ptask[t].op = "change_node"
    /\ ptask[t].pc \notin {"idle", "done"}
    /\ CnApply(t, CnRun(ptask[t].pc, ptask[t].arg, CnState))
    /\ UNCHANGED <<variant, channel_id, voice_state, volume, paused, equalizer,
                   current, last_position, queue, shuffle, repeat, now,
                   out, res, call, wsVars, gain_list, inVars>>

\* The voice binding of the player is complete before the tasks start.
TaskVoiceBound ==
    /\ \A t \in PTasks : ptask[t].pc = "idle"
    /\ channel_id = None
    /\ channel_id' = 1
    /\ voice_state' = {"sessionId", "event"}
    /\ UNCHANGED <<variant, node, volume, paused, equalizer, current,
                   last_update, last_position, queue, shuffle, repeat, now,
                   out, res, call, ccVars, wsVars, gain_list, inVars>>

\* ------------------------------------------------------ inbound messages
\* Guild 1 is the guild of the player; guild 2 has no player.
Guilds == {1, 2}
Registered == {1}

\* player_manager.get(guild_id): the player of the guild, or None.
GetPlayer(g) == IF g \in Registered THEN g ELSE None

Ops == {"stats", "playerUpdate", "event", "other"}
EventTypes == {"TrackEndEvent", "TrackStuckEvent", "TrackExceptionEvent",
               "WebSocketClosedEvent", "Unknown"}
Reasons == {"FINISHED", "REPLACED"}

Message(op, g, ty, reason, stage) ==
    [op |-> op, guild |-> g, type |-> ty, reason |-> reason, stage |-> stage]

InboundInit == inbound = Message("none", None, "none", "none", "idle")

\* _handle_event treating every type as one of its four.
RecognizedAny(ty) == TRUE

\* The if/elif chain of _handle_event over data['type'].
Recognized(ty) ==
    ty \in {"TrackEndEvent", "TrackStuckEvent", "TrackExceptionEvent",
            "WebSocketClosedEvent"}

\* The event object _handle_event builds.
TypedEvent(ty, reason) ==
    IF ty = "TrackEndEvent"
    THEN (IF reason = "FINISHED" THEN "TrackEndEvent:FINISHED"
                                 ELSE "TrackEndEvent:REPLACED")
    ELSE ty

\* A branch of _handle_message that returns without touching a player:
\* stats, a guild without a player, an unknown op or event type.
Returns(m, stage) ==
    /\ inbound' = [m EXCEPT !.stage = stage]
    /\ out' = <<>>
    /\ res' = "ok"
    /\ call' = Call("handle_message", <<>>)
    /\ UNCHANGED <<variant, node, channel_id, voice_state, volume, paused,
                   equalizer, current, last_update, last_position, queue,
                   shuffle, repeat, now, wsVars, gain_list, ccVars>>

\* await self._lavalink._dispatch_event(event)
DispatchEvent(m) ==
    /\ inbound' = [m EXCEPT !.stage = "dispatched"]
    /\ out' = <<Cmd(TypedEvent(m.type, m.reason), node, <<current>>)>>
    /\ res' = "ok"
    /\ call' = Call("dispatch_event", <<>>)
    /\ UNCHANGED <<variant, node, channel_id, voice_state, volume, paused,
                   equalizer, current, last_update, last_position, queue,
                   shuffle, repeat, now, wsVars, gain_list, ccVars>>

\* _handle_message(data), up to the first await of _handle_event; p is
\* data['state']['position'] of a playerUpdate.
HandleMessage(m, p) ==
    /\ inbound.stage # "dispatched"
    /\ IF m.op = "stats"
       THEN Returns(m, "stats")
       ELSE IF m.op = "playerUpdate"
       THEN IF GetPlayer(m.guild) = None
            THEN Returns(m, "dropped")
            ELSE UpdateStateBody(p) /\ inbound' = [m EXCEPT !.stage = "updated"]
       ELSE IF m.op = "event"
       THEN IF GetPlayer(m.guild) = None \/ ~Recognized(m.type)
            THEN Returns(m, "dropped")
            ELSE DispatchEvent(m)
       ELSE Returns(m, "dropped")

\* if player: await player._handle_event(event)
DeliverEvent ==
    /\ inbound.stage = "dispatched"
    /\ HandleEventBody(TypedEvent(inbound.type, inbound.reason))
    /\ inbound' = [inbound EXCEPT !.stage = "delivered"]

\* ----------------------------------------------------------------- specs
\* The steps the event loop schedules for task t.
TaskStep(t) ==
    \/ ConnectEnter(t)
    \/ ConnectLoop(t)
    \/ SleepDone(t)
    \/ NodeConnected(t)
    \/ ConfigureResuming(t)
    \/ ResumingConfigured(t)
    \/ FlushCheck(t)
    \/ FlushIter(t)
    \/ FlushSent(t)
    \/ ListenStart(t)
    \/ WebsocketClosed(t)
    \/ NodeDisconnected(t)

\* The statuses a failed handshake carries: 0 stands for ClientConnectorError.
Statuses == {0, AuthStatus, 404}

WSNext ==
    \/ Send
    \/ \E t \in Tasks : TaskStep(t)
    \/ \E t \in Tasks : HandshakeOk(t)
    \/ \E t \in Tasks : \E status \in Statuses : HandshakeFail(t, status)
    \/ \E s \in Sockets : SocketClose(s)

PlayerNext ==
    \/ VoiceServerUpdate
    \/ \E ch \in {None, 1} : VoiceStateUpdate(ch)
    \/ \E p \in Positions : UpdateState(p)
    \/ \E tr \in Tracks, st \in StartTimes, et \in EndTimes, nr \in BOOLEAN :
          BasicPlay(tr, st, et, nr)
    \/ \E tr \in Tracks, st \in StartTimes, et \in EndTimes, nr \in BOOLEAN :
          AdvancedPlay(tr, st, et, nr)
    \/ AdvancedPlay(None, 0, 0, FALSE)
    \/ \E tr \in Tracks, index \in {None, 1} : Add(tr, index)
    \/ \E r \in BOOLEAN : SetRepeat(r)
    \/ Stop
    \/ \E p \in BOOLEAN : SetPause(p)
    \/ \E p \in Positions : Seek(p)
    \/ \E ev \in Events : HandleEvent(ev)
    \/ \E n \in Nodes, avail \in BOOLEAN : ChangeNode(n, avail)
    \/ Tick

SettingsNext ==
    \/ \E batch \in Batches : SetGains(batch)
    \/ \E e \in GainEntries : e.pair /\ SetGain(e.band, e.gain)
    \/ ResetEqualizer

\* The channel of one node.
Init ==
    /\ WSInit
    /\ PlayerInit
    /\ TasksInit
    /\ InboundInit
    /\ variant = "basic"

Spec == Init /\ [][WSNext]_vars

\* The event loop runs every ready task; the remote and the application are
\* under no obligation.
FairSpec == Spec /\ \A t \in Tasks : WF_vars(TaskStep(t))

\* One player: playback, voice binding, events, failover and the clock.
PlayerSpecInit ==
    /\ WSInit
    /\ ~hasResume
    /\ PlayerInit
    /\ TasksInit
    /\ InboundInit

PlayerSpec == PlayerSpecInit /\ [][PlayerNext]_vars

\* One player: the equalizer.
SettingsSpec == PlayerSpecInit /\ [][SettingsNext]_vars


\* The read loop of a channel and the player its messages belong to.
Messages ==
    {Message(op, g, "none", "none", "new") :
        op \in {"stats", "playerUpdate", "other"}, g \in Guilds}
    \cup {Message("event", g, ty, "none", "new") :
        g \in Guilds, ty \in EventTypes \ {"TrackEndEvent"}}
    \cup {Message("event", g, "TrackEndEvent", r, "new") :
        g \in Guilds, r \in Reasons}

InboundNext ==
    \/ \E m \in Messages, p \in {1} : HandleMessage(m, p)
    \/ DeliverEvent
    \/ \E tr \in Tracks : BasicPlay(tr, 0, 0, FALSE)
    \/ \E tr \in Tracks : AdvancedPlay(tr, 0, 0, FALSE)
    \/ \E tr \in Tracks : Add(tr, None)
    \/ \E p \in BOOLEAN : SetPause(p)
    \/ Tick

InboundSpec == PlayerSpecInit /\ [][InboundNext]_vars

\* One player whose settings change and which is moved between nodes.
FailoverNext ==
    \/ \E ch \in {None, 1} : VoiceStateUpdate(ch)
    \/ UpdateState(1)
    \/ \E tr \in Tracks : BasicPlay(tr, 0, 0, FALSE)
    \/ \E tr \in Tracks : AdvancedPlay(tr, 0, 0, FALSE)
    \/ Stop
    \/ \E p \in BOOLEAN : SetPause(p)
    \/ \E vol \in Volumes : SetVolume(vol)
    \/ SetGains(<<Pair(0, 50)>>)
    \/ ResetEqualizer
    \/ \E n \in Nodes, avail \in BOOLEAN : ChangeNode(n, avail)
    \/ Tick

FailoverSpec == PlayerSpecInit /\ [][FailoverNext]_vars


\* One player that binds voice, plays, changes its settings and is moved.
MigrationNext ==
    \/ VoiceServerUpdate
    \/ \E ch \in {None, 1} : VoiceStateUpdate(ch)
    \/ \E tr \in Tracks : BasicPlay(tr, 0, 0, FALSE)
    \/ \E tr \in Tracks : AdvancedPlay(tr, 0, 0, FALSE)
    \/ Stop
    \/ \E p \in BOOLEAN : SetPause(p)
    \/ \E vol \in Volumes : SetVolume(vol)
    \/ SetGains(<<Pair(0, 50)>>)
    \/ ResetEqualizer
    \/ \E n \in Nodes, avail \in BOOLEAN : ChangeNode(n, avail)
    \/ Tick

MigrationSpec == PlayerSpecInit /\ [][MigrationNext]_vars

\* One player driven by concurrent tasks.
ConcNext ==
    \/ TaskVoiceBound
    \/ \E t \in PTasks, tr \in Tracks : TaskPlay(t, tr)
    \/ \E t \in PTasks : TaskStop(t)
    \/ \E t \in PTasks, p \in BOOLEAN : TaskSetPause(t, p)
    \/ \E t \in PTasks : TaskSetVolume(t, 50)
    \/ \E t \in PTasks : TaskSeek(t, 1)
    \/ \E t \in PTasks : CommandSent(t)
    \/ \E t \in PTasks, n \in Nodes, avail \in BOOLEAN : TaskChangeNode(t, n, avail)
    \/ \E t \in PTasks : ChangeNodeResume(t)

ConcSpec == PlayerSpecInit /\ [][ConcNext]_vars

\* ---------------------------------------------------------------- claims
Submitted == 1 .. (nextMsg - 1)
Count(seq, m) == Cardinality({i \in 1 .. Len(seq) : seq[i] = m})
InWire(m) == \E i \in 1 .. Len(wire) : wire[i] = m
InQueue(m) == \E i \in 1 .. Len(message_queue) : message_queue[i] = m
FirstPos(m) == CHOOSE i \in 1 .. Len(wire) : wire[i] = m /\ \A j \in 1 .. (i - 1) : wire[j] # m

\* C1: payloads handed to _send while disconnected are transmitted in the
\* order they were handed in, and all of them before any payload handed to
\* _send after the next handshake succeeded.
FlushOrder ==
    \A a \in Submitted : \A b \in Submitted :
        (/\ bufOf[a]
         /\ InWire(b)
         /\ \/ bufOf[b] /\ a < b
            \/ epochOf[b] > epochOf[a])
        => (InWire(a) /\ FirstPos(a) < FirstPos(b))

\* C2: every payload ever handed to _send has been transmitted exactly once
\* or is still in the outbound buffer; none is transmitted twice.
NoDropNoDup ==
    \A m \in Submitted :
        /\ Count(wire, m) <= 1
        /\ Count(wire, m) = 1 \/ InQueue(m)

\* C3: once a handshake was rejected with status 401, no task of the channel
\* starts another connect attempt.
AttemptStarts == \E t \in Tasks : pc[t] # "connecting" /\ pc'[t] = "connecting"
NoAttemptAfterAuthFailure == [][authSeen => ~AttemptStarts]_vars

\* C4: the wait after the n-th consecutive failed handshake, counted from the
\* creation of the channel or from its last successful handshake, is
\* min(10 n, 60), hence at most 60.
BackoffByConsecutiveFailures ==
    [][\A t \in Tasks :
          (pc[t] = "connecting" /\ pc'[t] = "sleep")
          => /\ backoff'[t] = Min(BackoffStep * consecFails', BackoffCap)
             /\ backoff'[t] <= BackoffCap]_vars

\* C5: while the channel is disconnected and no handshake was rejected with
\* 401, a connect attempt eventually follows; an accepted handshake makes the
\* channel connected.
HandshakeAccepted == \E t \in Tasks : pc[t] = "connecting" /\ pc'[t] = "notify"
AttemptInProgress == \E t \in Tasks : pc[t] = "connecting"
OnlyAuthFailureIsTerminal ==
    /\ (~connected /\ ~authSeen) ~> (AttemptInProgress \/ connected \/ authSeen)
    /\ [][HandshakeAccepted => connected']_vars

\* C6: the position is 0 when the player is not playing and never exceeds
\* the current track's duration.
PositionInvariant ==
    /\ ~is_playing => position = 0
    /\ is_playing => position <= Duration(current)

\* C6 witness: a playing, unpaused player whose anchors have run past the end
\* of the track.
PositionCapped ==
    /\ is_playing
    /\ ~paused
    /\ last_position + (now - last_update) > Duration(current)
    /\ position = Duration(current)

\* C7: after play(track, start_time) succeeded on a voice-connected player
\* and before anything else but the clock moved, the position is start_time
\* plus the time elapsed since, capped at the duration.
PlayedTrack == call.args[1]
PlayedStart == call.args[2]
PlayedEnd   == call.args[3]
PlayedAt    == call.args[4]
PositionBeginsAtStart ==
    (/\ call.op = "play"
     /\ res = "ok"
     /\ PlayedTrack # None
     /\ is_playing
     /\ 0 <= PlayedStart /\ PlayedStart <= Duration(PlayedTrack))
    => position = Min(PlayedStart + (now - PlayedAt), Duration(current))

\* C8: AdvancedPlayer.play with a nonzero start_time or end_time outside
\* [0, track.duration] raises ValueError and sends no play command.
OutOfRange(x, tr) == x # 0 /\ (x < 0 \/ x > Duration(tr))
PlayRangeChecked ==
    (/\ variant = "advanced"
     /\ call.op = "play"
     /\ PlayedTrack # None
     /\ OutOfRange(PlayedStart, PlayedTrack) \/ OutOfRange(PlayedEnd, PlayedTrack))
    => /\ res = "ValueError"
       /\ \A i \in 1 .. Len(out) : out[i].op # "play"

\* C9: a set_gains whose gain_list holds an entry that is no pair or whose
\* band is outside 0..14 raises, changes no entry of the equalizer and sends
\* no equalizer command.
BadEntry(e) == ~e.pair \/ e.band < 0 \/ e.band > NumBands - 1
SetGainsAllOrNothing ==
    [][(\E i \in 1 .. Len(gain_list') : BadEntry(gain_list'[i]))
       => /\ res' # "ok"
          /\ equalizer' = equalizer
          /\ out' = <<>>]_vars

\* C10: whatever the gains requested, the equalizer always has 15 entries
\* within [-0.25, 1.0]; a call that returns has sent exactly one equalizer
\* command listing each entry of gain_list with its gain clamped, and each
\* band holds the clamped gain last requested for it.
Clamped(g) == IF g < GainMin THEN GainMin ELSE IF g > GainMax THEN GainMax ELSE g
ExpectedBands(batch) ==
    [i \in 1 .. 2 * Len(batch) |->
        IF i % 2 = 1 THEN batch[(i + 1) \div 2].band ELSE Clamped(batch[i \div 2].gain)]
EqualizerInvariant ==
    /\ DOMAIN equalizer = 1 .. NumBands
    /\ \A b \in 1 .. NumBands : GainMin <= equalizer[b] /\ equalizer[b] <= GainMax
    /\ (call.op \in {"set_gains", "set_gain", "reset_equalizer"} /\ res = "ok")
       => /\ Len(out) = 1
          /\ out[1].op = "equalizer"
          /\ out[1].args = ExpectedBands(gain_list)
          /\ \A i \in 1 .. Len(gain_list) :
                (\A j \in (i + 1) .. Len(gain_list) :
                     PyIndex(gain_list[j].band) # PyIndex(gain_list[i].band))
                => equalizer[PyIndex(gain_list[i].band)] = Clamped(gain_list[i].gain)

\* C11: set_volume(vol) sends a volume command carrying vol and leaves
\* self.volume equal to vol.
VolumeSendsNewValue ==
    (call.op = "set_volume" /\ res = "ok")
    => /\ out = <<Cmd("volume", node, <<call.args[1]>>)>>
       /\ volume = call.args[1]

\* C12: every voiceUpdate command sent carries a session id and a server
\* event; a voice-state update without channel id sends nothing, empties
\* _voice_state and leaves the player not connected.
VoiceBindingSafe ==
    /\ \A i \in 1 .. Len(out) :
          out[i].op = "voiceUpdate" => out[i].args[1] = {"sessionId", "event"}
    /\ (call.op = "voice_state_update" /\ call.args[1] = None)
       => /\ out = <<>>
          /\ voice_state = {}
          /\ ~is_connected

\* C12 witness: the voice-state update that completes the binding has sent
\* the voiceUpdate command.
VoiceBound ==
    /\ call.op = "voice_state_update"
    /\ call.args[1] # None
    /\ \E i \in 1 .. Len(out) : out[i].op = "voiceUpdate"

\* A step that runs AdvancedPlayer.play() without a track: the call itself or
\* the auto-advance of _handle_event.
QueueAfterRepeat == IF repeat /\ current # None THEN Append(queue, current) ELSE queue
PlayNoTrackStep ==
    /\ variant = "advanced"
    /\ \/ call'.op = "play" /\ call'.args[1] = None
       \/ Terminal(call'.op)
    /\ <<call, out, res, current, queue, paused>>' # <<call, out, res, current, queue, paused>>
HasOp(seq, op) == \E i \in 1 .. Len(seq) : seq[i].op = op

\* C13: play() without a track and with shuffle off plays the track at queue
\* index 0: it becomes current, leaves the queue, the others keep their
\* order, and a play command for it and a TrackStartEvent are emitted.
PlaysQueueHead ==
    [][(PlayNoTrackStep /\ ~shuffle /\ QueueAfterRepeat # <<>>)
       => /\ res' = "ok"
          /\ current' = Head(QueueAfterRepeat)
          /\ queue' = Tail(QueueAfterRepeat)
          /\ Len(out') = 2
          /\ out'[1].op = "play" /\ out'[1].args[1] = Head(QueueAfterRepeat)
          /\ out'[2].op = "TrackStartEvent"]_vars

\* C14: play() without a track on a queue that is empty after the repeat
\* append sends stop, then dispatches QueueEndEvent, leaves current None,
\* and emits no play command and no TrackStartEvent.
EmptyQueueStops ==
    [][(PlayNoTrackStep /\ QueueAfterRepeat = <<>>)
       => /\ Len(out') = 2
          /\ out'[1].op = "stop"
          /\ out'[2].op = "QueueEndEvent"
          /\ current' = None
          /\ ~HasOp(out', "play") /\ ~HasOp(out', "TrackStartEvent")]_vars

\* C14 witness: a playing track ended, the queue was empty, and the player
\* stopped and reported the end of the queue.
QueueEnded ==
    /\ variant = "advanced"
    /\ call.op = "TrackEndEvent:FINISHED"
    /\ current = None
    /\ queue = <<>>
    /\ HasOp(out, "stop") /\ HasOp(out, "QueueEndEvent")

\* C15: with repeat on, a track that finishes is appended to the queue tail
\* before the next track is selected: alone in the queue it is played again
\* and no QueueEndEvent is emitted.
RepeatReplays ==
    [][(/\ PlayNoTrackStep
        /\ call'.op = "TrackEndEvent:FINISHED"
        /\ repeat /\ current # None /\ queue = <<>> /\ ~shuffle)
       => /\ current' = current
          /\ queue' = <<>>
          /\ HasOp(out', "play")
          /\ ~HasOp(out', "QueueEndEvent")]_vars

\* The commands of one kind that change_node sent to the new node.
Resent(op) == {i \in 1 .. Len(out) : out[i].op = op /\ out[i].node = node}
EqualizerModified == \E b \in 1 .. NumBands : equalizer[b] # 0
ResendsVolumeAndEqualizer ==
    /\ \A i \in 1 .. Len(out) : out[i].op \in {"volume", "pause", "equalizer"} => i \in Resent(out[i].op)
    /\ Resent("volume") # {} <=> volume # DefaultVolume
    /\ \A i \in Resent("volume") : out[i].args = <<volume>>
    /\ Resent("equalizer") # {} <=> EqualizerModified
    /\ \A i \in Resent("equalizer") :
          /\ Len(out[i].args) = 2 * NumBands
          /\ \A b \in 1 .. NumBands : out[i].args[2 * b - 1] = b - 1 /\ out[i].args[2 * b] = equalizer[b]

\* C16 as stated: change_node sends, to the new node, a volume command iff
\* volume # 100, a pause command iff the player is paused, and an equalizer
\* command with all 15 bands iff some gain is not 0.0.
ResendsSettingsIffNotDefault ==
    call.op = "change_node"
    => /\ ResendsVolumeAndEqualizer
       /\ Resent("pause") # {} <=> paused

\* C16 amended: as above, but the pause command is sent iff the player is
\* paused and has a current track.
ResendsSettingsPauseWithTrack ==
    call.op = "change_node"
    => /\ ResendsVolumeAndEqualizer
       /\ Resent("pause") # {} <=> (paused /\ current # None)

\* C16 witness: a paused player with a track, a volume and a gain off their
\* defaults was moved and all three settings were resent.
AllSettingsResent ==
    /\ call.op = "change_node"
    /\ paused /\ current # None
    /\ volume # DefaultVolume
    /\ EqualizerModified
    /\ Resent("pause") # {} /\ Resent("volume") # {} /\ Resent("equalizer") # {}

\* A step that runs change_node.
ChangeNodeStep ==
    /\ call'.op = "change_node"
    /\ <<call, out, node, last_update>>' # <<call, out, node, last_update>>
\* The time between two playerUpdate messages: the clock of the model never
\* runs for longer than that.
UpdateInterval == MaxTicks
Abs(x) == IF x < 0 THEN -x ELSE x

\* C17: change_node on a player with a current track replays the play
\* command on the new node with startTime = the position computed at that
\* moment, and the position right after differs from the position right
\* before by no more than one playerUpdate interval.
PositionPreserved ==
    [][(ChangeNodeStep /\ current # None)
       => /\ \E i \in 1 .. Len(out') :
                /\ out'[i].op = "play"
                /\ out'[i].node = node'
                /\ out'[i].args[2] = position
          /\ Abs(position' - position) <= UpdateInterval]_vars

\* C18: once change_node has sent destroy to a node, no command of the
\* player is transmitted to that node (the player is moved once here, to
\* another node), and after the swap of self.node every command goes to the
\* new node.
MovedOnce == Cardinality({t \in PTasks : ptask[t].op = "change_node"}) = 1
SingleOwnerDuringFailover ==
    \A t \in PTasks :
        (MovedOnce /\ ptask[t].op = "change_node")
        => /\ \A i \in 1 .. Len(pwire) : \A j \in (i + 1) .. Len(pwire) :
                  (pwire[i].op = "destroy" /\ pwire[i].node # ptask[t].arg)
                  => pwire[j].node # pwire[i].node
           /\ ptask[t].pc \notin {"idle", "swap"} => node = ptask[t].arg

\* C19: once every task has completed, current is None iff the last play or
\* stop command transmitted was a stop, and paused is the value of the last
\* pause command transmitted, or false if a play was transmitted after it.
AllCompleted == \A t \in PTasks : ptask[t].pc \in {"idle", "done"}
WireOps(ops) == {i \in 1 .. Len(pwire) : pwire[i].op \in ops}
LastOf(S) == CHOOSE i \in S : \A j \in S : j <= i
LastCommandWins ==
    AllCompleted
    => /\ WireOps({"play", "stop"}) # {}
          => (current = None <=> pwire[LastOf(WireOps({"play", "stop"}))].op = "stop")
       /\ WireOps({"play", "pause"}) # {}
          => LET c == pwire[LastOf(WireOps({"play", "pause"}))]
             IN paused = (c.op = "pause" /\ c.args[1] = 1)

\* C20: at most one connect() is running and at most one read loop, at most
\* one socket is open, every successful handshake is followed by exactly one
\* _node_connect notification, and no read loop is about to clear the
\* handle of a socket newer than its own.
InConnect(t) ==
    pc[t] \in {"enter", "loop", "connecting", "sleep", "notify", "resume",
               "resume_sent", "flush_check", "flush_iter", "flush_sent"}
OneConnectionTask ==
    /\ Cardinality({t \in Tasks : InConnect(t)}) <= 1
    /\ Cardinality({t \in Tasks : pc[t] = "listen"}) <= 1
    /\ Cardinality({s \in Sockets : s <= connCount /\ s \notin closed}) <= 1
    /\ spawnCount + Cardinality({t \in Tasks : pc[t] = "notify"}) = connCount
    /\ \A t \in Tasks :
          (pc[t] = "listen" /\ lsock[t] \in closed) => ws \in {None, lsock[t]}

\* The read loops that ran _websocket_closed for socket s, and whether the
\* read loop of s has still to handle its close or to finish notifying.
ClosedHandlers(s) ==
    {t \in Tasks : t # 0 /\ lsock[t] = s
                   /\ (pc[t] \in {"disc_notify", "done"} \/ InConnect(t))}
CloseUnfinished(s) ==
    /\ s \in closed
    /\ \E t \in Tasks : lsock[t] = s /\ pc[t] \in {"listen", "disc_notify"}

\* C21: a closed socket makes its read loop clear self._ws, then notify the
\* manager once (_node_disconnect), and only then is a connect attempt
\* started; nothing is transmitted while the channel is disconnected.
CloseThenNotifyThenReconnect ==
    [][/\ \A s \in Sockets : Cardinality(ClosedHandlers(s)') <= 1
       /\ \A t \in Tasks : (pc[t] = "listen" /\ pc'[t] = "disc_notify") => ws' = None
       /\ AttemptStarts => \A s \in Sockets : ~CloseUnfinished(s)
       /\ wire' # wire => connected]_vars

\* connect() hands configureResuming to _send (websocket.py:97).
SendsConfigure == \E t \in Tasks : pc[t] = "resume" /\ pc'[t] = "resume_sent"

\* C22: configureResuming is handed to _send at most once per channel and
\* only with a resume key and a positive timeout; it is transmitted on the
\* connection that was just reported, ahead of every buffered payload; and
\* a connect attempt carries the Resume-Key header exactly when resuming
\* has been configured before.
ResumeConfiguredOnce ==
    [][/\ SendsConfigure =>
            /\ hasResume
            /\ connected
            /\ Count(wire, CfgMsg) = 0 /\ Count(message_queue, CfgMsg) = 0
            /\ \A m \in Submitted : bufOf[m] => ~InWire(m)
       /\ \A t \in Tasks :
            (pc[t] # "connecting" /\ pc'[t] = "connecting")
                => (headerKey[t] <=> resuming_configured)]_vars

\* What a player holds, and the four event types of the protocol.
SessionState ==
    <<node, channel_id, voice_state, volume, paused, equalizer, current,
      last_update, last_position, queue, shuffle, repeat>>
FourKinds == {"TrackEndEvent", "TrackStuckEvent", "TrackExceptionEvent",
              "WebSocketClosedEvent"}
Translatable(m) ==
    m.op = "event" /\ m.guild \in Registered /\ m.type \in FourKinds
Ignorable(m) ==
    \/ m.op \notin {"stats", "playerUpdate", "event"}
    \/ m.op \in {"playerUpdate", "event"} /\ m.guild \notin Registered
    \/ m.op = "event" /\ m.type \notin FourKinds

\* C23: an event message of one of the four types for a guild with a player
\* makes exactly one typed event, dispatched globally before the player's
\* _handle_event gets it; an unknown op, an unknown event type and a guild
\* without a player dispatch nothing, run no handler, change no player state
\* and raise nothing.
EventTranslation ==
    [][/\ (inbound.stage # "dispatched" /\ inbound' # inbound
              /\ Translatable(inbound')) =>
            /\ out' = <<Cmd(TypedEvent(inbound'.type, inbound'.reason),
                            node, <<current>>)>>
            /\ inbound'.stage = "dispatched"
            /\ call'.op \notin Events
            /\ SessionState' = SessionState
       /\ (inbound.stage # "dispatched" /\ inbound' # inbound
              /\ Ignorable(inbound')) =>
            /\ out' = <<>>
            /\ res' = "ok"
            /\ call'.op \notin Events
            /\ inbound'.stage # "dispatched"
            /\ SessionState' = SessionState
       /\ (call'.op \in Events /\ call' # call) =>
            /\ inbound.stage = "dispatched"
            /\ inbound'.stage = "delivered"
            /\ call'.op = TypedEvent(inbound.type, inbound.reason)]_vars

\* A track-end message went through dispatch and the player's handler.
EventDelivered ==
    /\ inbound.stage = "delivered"
    /\ inbound.type = "TrackEndEvent"
    /\ call.op = "TrackEndEvent:FINISHED"
    /\ current = None

\* _handle_event(ev) ran in this step.
HandlerStep(ev) ==
    /\ call'.op = ev
    /\ <<call, out, res, current, queue, paused>>' # <<call, out, res, current, queue, paused>>
Elements(seq) == {seq[i] : i \in 1 .. Len(seq)}

\* C24: a player reacts to TrackStuckEvent, TrackExceptionEvent and
\* TrackEndEvent with reason FINISHED only: BasicPlayer clears current and
\* sends nothing, AdvancedPlayer goes on to a queued track with a play
\* command (or to no track when the queue is empty); any other event leaves
\* current, queue, pause and the position anchors alone and sends nothing.
TerminalEventHandling ==
    [][\A ev \in Events : HandlerStep(ev) =>
          IF ev \in {"TrackStuckEvent", "TrackExceptionEvent", "TrackEndEvent:FINISHED"}
          THEN IF variant = "basic"
               THEN current' = None /\ out' = <<>>
               ELSE IF QueueAfterRepeat = <<>>
               THEN current' = None
               ELSE /\ current' \in Elements(QueueAfterRepeat)
                    /\ HasOp(out', "play")
          ELSE /\ UNCHANGED <<current, queue, paused, last_update, last_position>>
               /\ out' = <<>>]_vars

\* The place of each command in the sequence of change_node.
Rank(op) ==
    CASE op = "destroy" -> 1
      [] op = "voiceUpdate" -> 2
      [] op = "play" -> 3
      [] op = "pause" -> 4
      [] op = "volume" -> 5
      [] op = "equalizer" -> 6
      [] op = "NodeChangedEvent" -> 7
      [] OTHER -> 0

\* C25: change_node sends destroy on the old node iff that node is
\* available, and before everything else; then, on the new node only, in
\* this order and each at most once, voiceUpdate (iff session id and server
\* event are both bound), play (iff there is a current track), pause, volume
\* and equalizer; and last it dispatches one NodeChangedEvent(old, new).
ChangeNodeSequence ==
    [][ChangeNodeStep =>
          /\ \A i \in 1 .. Len(out') : Rank(out'[i].op) > 0
          /\ \A i \in 1 .. Len(out') : \A j \in (i + 1) .. Len(out') :
                Rank(out'[i].op) < Rank(out'[j].op)
          /\ HasOp(out', "destroy") <=> call'.args[2] = 1
          /\ HasOp(out', "voiceUpdate") <=> voice_state = {"sessionId", "event"}
          /\ HasOp(out', "play") <=> current # None
          /\ \A i \in 1 .. Len(out') :
                out'[i].node = (IF out'[i].op = "destroy" THEN node ELSE node')
          /\ node' = call'.args[1]
          /\ out'[Len(out')] = Cmd("NodeChangedEvent", node', <<node, node'>>)]_vars

\* A bound, playing, paused player with its own volume and equalizer was
\* moved from an available node: all six commands and the event.
FullMigration ==
    /\ call.op = "change_node"
    /\ Len(out) = 7

====
